---- MODULE Spec2Model ----
(***************************************************************************)
(* Model of src/utils/md_doc.rs: MdDoc, the markdown document combined    *)
(* from a directory tree of markdown fragments.                            *)
(*                                                                         *)
(* A text (Rust String / &str) is a sequence of one-character strings.     *)
(* A DocDir tree is an arena: a function from node ids to node records.    *)
(***************************************************************************)
EXTENDS Naturals, Sequences, FiniteSets

VARIABLES
    tree,       \* self.dir: node id -> DocDir record (read-only during a pass)
    stack,      \* call stack of combine: frames [node, todo]
    body,       \* `body` accumulator of eval/combine
    title,      \* `title` accumulator: 0 is None, else the node Title::from accepted
    pc,         \* position of eval: "combine", "combined", "done", "panicked"
    markdown,   \* MdDoc.markdown of the instance eval returns
    trace,      \* history: what each step of combine contributed, in order
    input,      \* argument text of a direct call of a text function
    output,     \* value returned by the last direct call
    call,       \* name of the last direct call, "none" before any
    passes      \* number of add_pagebreakes passes applied to input

vars == <<tree, stack, body, title, pc, markdown, trace, input, output, call, passes>>

-----------------------------------------------------------------------------
(* Characters and literals *)

NL == "\n"

Whitespace == {" ", "\t", "\n", "\r"}

Rep(c, n) == [i \in 1..n |-> c]

\* "======================pagebreak======================"
PAGEBREAK ==
    Rep("=", 22) \o <<"p", "a", "g", "e", "b", "r", "e", "a", "k">> \o Rep("=", 22)

NLNL == <<NL, NL>>

-----------------------------------------------------------------------------
(* str helpers *)

\* s.starts_with(p)
starts_with(s, p) == Len(s) >= Len(p) /\ SubSeq(s, 1, Len(p)) = p

\* s.ends_with(p)
ends_with(s, p) == Len(s) >= Len(p) /\ SubSeq(s, Len(s) - Len(p) + 1, Len(s)) = p

\* s.contains(p)
contains(s, p) ==
    \E i \in 1..(Len(s) + 1) : i + Len(p) - 1 <= Len(s) /\ SubSeq(s, i, i + Len(p) - 1) = p

\* The numbers of a set in increasing order.
RECURSIVE Sorted(_)
Sorted(S) ==
    IF S = {} THEN <<>>
    ELSE LET m == CHOOSE x \in S : \A y \in S : x <= y
         IN  <<m>> \o Sorted(S \ {m})

\* s.split("\n").collect(): the pieces of s between its newlines, in order.
\* A text without a newline (the empty text too) has one line.
split(s) ==
    LET nls == Sorted({i \in 1..Len(s) : s[i] = NL})
        cut == <<0>> \o nls \o <<Len(s) + 1>>
    IN  [k \in 1..(Len(nls) + 1) |-> SubSeq(s, cut[k] + 1, cut[k + 1] - 1)]

\* lines[from..].join("\n")
RECURSIVE JoinFrom(_, _)
JoinFrom(lines, from) ==
    IF from > Len(lines) THEN <<>>
    ELSE IF from = Len(lines) THEN lines[from]
    ELSE lines[from] \o <<NL>> \o JoinFrom(lines, from + 1)

\* Regex (^\s*$) .is_match(line)
re_is_empty(line) == \A i \in 1..Len(line) : line[i] \in Whitespace

\* Regex \S .is_match(line)
re_non_whitespace(line) == \E i \in 1..Len(line) : line[i] \notin Whitespace

-----------------------------------------------------------------------------
(* MdDoc::add_pagebreakes *)

\* The body of `for line in lines.into_iter().skip(1)`, from line i on.
RECURSIVE PagebreakLoop(_, _, _, _)
PagebreakLoop(lines, i, doc, prev_is_empty) ==
    IF i > Len(lines) THEN doc
    ELSE LET line == lines[i]
             brk  == IF starts_with(line, <<"#", " ">>)
                     THEN (IF ~prev_is_empty THEN NLNL ELSE <<>>) \o PAGEBREAK \o NLNL
                     ELSE <<>>
         IN  PagebreakLoop(lines, i + 1, doc \o brk \o line \o <<NL>>, re_is_empty(line))

add_pagebreakes(doc) ==
    LET lines == split(doc)
    IN  PagebreakLoop(lines, 2, lines[1] \o <<NL>>, FALSE)

-----------------------------------------------------------------------------
(* MdDoc::ends_with_pagebreak *)

\* doc.rsplit("\n").skip_while(|line| !re_non_whitespace.is_match(line)).next():
\* index of the line the iterator stops at, scanning from line i backwards; 0 is None.
RECURSIVE SkipBlankBack(_, _)
SkipBlankBack(lines, i) ==
    IF i = 0 THEN 0
    ELSE IF ~re_non_whitespace(lines[i]) THEN SkipBlankBack(lines, i - 1)
    ELSE i

\* Variant: looks at the last line only, without skipping the blank lines.
ends_with_pagebreak_last_line(doc) ==
    LET lines == split(doc)
    IN  contains(lines[Len(lines)], PAGEBREAK)

ends_with_pagebreak(doc) ==
    LET lines == split(doc)
        last  == SkipBlankBack(lines, Len(lines))
    IN  IF last = 0 THEN FALSE ELSE contains(lines[last], PAGEBREAK)

-----------------------------------------------------------------------------
(* MdDoc::rebuild_header *)

\* Length of the run of characters of set S in line starting after position p.
RECURSIVE RunLen(_, _, _)
RunLen(line, p, S) ==
    IF p + 1 <= Len(line) /\ line[p + 1] \in S THEN 1 + RunLen(line, p + 1, S) ELSE 0

\* Regex ^[ \t]*(#*)[ \t](.*)$ : the ways to match, as <<i, j>> with i
\* characters taken by [ \t]* and j by (#*), the next one being [ \t].
HeadingMatches(line) ==
    {ij \in (0..Len(line)) \X (0..Len(line)) :
        /\ ij[1] <= RunLen(line, 0, {" ", "\t"})
        /\ ij[2] <= RunLen(line, ij[1], {"#"})
        /\ ij[1] + ij[2] + 1 <= Len(line)
        /\ line[ij[1] + ij[2] + 1] \in {" ", "\t"}}

\* re.captures(first_line): greedy, so the longest [ \t]* and then the longest #*.
HeadingCaptures(line) ==
    LET ms == HeadingMatches(line)
        m  == CHOOSE x \in ms : \A y \in ms :
                 x[1] > y[1] \/ (x[1] = y[1] /\ x[2] >= y[2])
    IN  IF ms = {} THEN [matched |-> FALSE, hashes |-> <<>>, text |-> <<>>]
        ELSE [matched |-> TRUE,
              hashes  |-> SubSeq(line, m[1] + 1, m[1] + m[2]),
              text    |-> SubSeq(line, m[1] + m[2] + 2, Len(line))]

\* rebuild_header of a readable file `content` whose DocDir has header() = header.
rebuild_header(header, content) ==
    LET lines      == split(content)
        caps       == HeadingCaptures(lines[1])
        first_line == IF caps.matched
                      THEN caps.hashes \o <<" ">> \o header \o <<".", " ">> \o caps.text \o NLNL
                      ELSE lines[1]
        rest       == IF Len(lines) - 1 > 1 THEN JoinFrom(lines, 2) ELSE NLNL
    IN  first_line \o rest

-----------------------------------------------------------------------------
(* DocDir trees *)

Root == 1

None == 0

\* DocDir::header() labels
Part01 == <<"P", "a", "r", "t", " ", "0", "1">>
Part02 == <<"P", "a", "r", "t", " ", "0", "2">>
Headers == {Part01, Part02}

\* Contents of readable files.
FileContents ==
    { <<"a">>,
      <<"#", " ", "a", NL, "b", NL>>,
      <<"a", NL, NL>>,
      <<"b", NL>> \o PAGEBREAK \o <<NL>>,
      <<>> }

\* A node is a DocDir (is_dir, header(), children) together with what the
\* file system and Title::from answer for its path.
DirNodes ==
    {[is_dir |-> TRUE, header |-> h, content |-> <<>>, readable |-> FALSE,
      is_title |-> FALSE] : h \in Headers}

PlainFiles ==
    {[is_dir |-> FALSE, header |-> h, content |-> c, readable |-> TRUE,
      is_title |-> FALSE] : h \in Headers, c \in FileContents}

TitleFiles ==
    {[is_dir |-> FALSE, header |-> h, content |-> <<"t", NL>>, readable |-> TRUE,
      is_title |-> TRUE] : h \in Headers}

UnreadableFiles ==
    {[is_dir |-> FALSE, header |-> h, content |-> <<>>, readable |-> FALSE,
      is_title |-> FALSE] : h \in Headers}

NodeKinds == DirNodes \cup PlainFiles \cup TitleFiles \cup UnreadableFiles

\* Largest number of nodes of a generated tree.
MaxNodes == 3

\* Ancestors of node i (itself included) under parent map par.
RECURSIVE AncestorsOrSelf(_, _)
AncestorsOrSelf(par, i) ==
    IF i = Root THEN {Root} ELSE {i} \cup AncestorsOrSelf(par, par[i])

\* Parent maps of trees over 1..n numbered in depth-first order.
ParentMaps(n) ==
    {par \in [2..n -> 1..n] :
        \A i \in 2..n : par[i] < i /\ (i > 2 => par[i] \in AncestorsOrSelf(par, i - 1))}

MkTree(n, par, kind) ==
    [i \in 1..n |->
        [is_dir   |-> kind[i].is_dir,
         header   |-> kind[i].header,
         content  |-> kind[i].content,
         readable |-> kind[i].readable,
         is_title |-> kind[i].is_title,
         children |-> Sorted({c \in 2..n : par[c] = i})]]

\* A parent is a directory.
TreeShapes(n) ==
    {pk \in ParentMaps(n) \X [1..n -> NodeKinds] :
        \A i \in 2..n : pk[2][pk[1][i]].is_dir}

GenericTrees ==
    UNION {{MkTree(n, pk[1], pk[2]) : pk \in TreeShapes(n)} : n \in 1..MaxNodes}

\* root{ dirA{hdrA, file1, file2}, dirB{hdrB, file3} }
ExampleTrees ==
    LET D(h, ch) == [is_dir |-> TRUE, header |-> h, content |-> <<>>,
                     readable |-> FALSE, is_title |-> FALSE, children |-> ch]
        F(h, c)  == [is_dir |-> FALSE, header |-> h, content |-> c,
                     readable |-> TRUE, is_title |-> FALSE, children |-> <<>>]
    IN  { <<D(Part01, <<2, 6>>),
            D(Part01, <<3, 4, 5>>), F(Part01, <<"#", " ", "A">>), F(Part02, c[1]), F(Part02, c[2]),
            D(Part02, <<7, 8>>), F(Part02, <<"#", "#", " ", "B", NL, "x", NL>>), F(Part01, c[3])>> :
          c \in [1..3 -> FileContents] }

Nodes == DOMAIN tree

-----------------------------------------------------------------------------
(* MdDoc::read_header and the child filter of MdDoc::combine *)

\* dir.children.iter().find(|child| (!child.is_dir) && child.header() == dir.header()):
\* the child found, 0 when none.
RECURSIVE FindHeaderChild(_, _, _)
FindHeaderChild(t, d, i) ==
    IF i > Len(t[d].children) THEN None
    ELSE LET c == t[d].children[i]
         IN  IF ~t[c].is_dir /\ t[c].header = t[d].header THEN c
             ELSE FindHeaderChild(t, d, i + 1)

header_source(t, d) == FindHeaderChild(t, d, 1)

\* dir.children.iter().filter(|child| if child.is_dir {true} else {child.header() != dir.header()})
RECURSIVE FilterChildren(_, _, _)
FilterChildren(t, d, i) ==
    IF i > Len(t[d].children) THEN <<>>
    ELSE LET c == t[d].children[i]
         IN  (IF t[c].is_dir \/ t[c].header # t[d].header THEN <<c>> ELSE <<>>)
             \o FilterChildren(t, d, i + 1)

\* Variant: walks the children last to first.
RECURSIVE FilterChildrenBack(_, _, _)
FilterChildrenBack(t, d, i) ==
    IF i = 0 THEN <<>>
    ELSE LET c == t[d].children[i]
         IN  (IF t[c].is_dir \/ t[c].header # t[d].header THEN <<c>> ELSE <<>>)
             \o FilterChildrenBack(t, d, i - 1)

children_to_walk_reversed(t, d) == FilterChildrenBack(t, d, Len(t[d].children))

children_to_walk(t, d) == FilterChildren(t, d, 1)

\* The closing steps of combine on a directory.
close_dir(b) ==
    LET b1 == IF ~ends_with(b, NLNL) THEN b \o NLNL ELSE b
    IN  IF ~ends_with_pagebreak(b1) THEN b1 \o PAGEBREAK \o NLNL ELSE b1

read_header(t, d) ==
    LET first == header_source(t, d)
    IN  IF first = None THEN <<>>
        ELSE rebuild_header(t[first].header, t[first].content)

-----------------------------------------------------------------------------
(* MdDoc::eval: combine over self.dir, then one add_pagebreakes pass *)

Top == stack[Len(stack)]

\* combine is about to be called on the next child of the running frame.
Calling == pc = "combine" /\ Top.todo # <<>>

Callee == Head(Top.todo)

\* The running frame once the call on its next child has been made.
Advance(st) == [st EXCEPT ![Len(st)].todo = Tail(@)]

Event(k, n, txt) == [kind |-> k, node |-> n, text |-> txt]

\* Variant: asks Title::from without the `title.is_none()` test.
TitleAcceptedAgain(t, ttl, c) == t[c].is_title

\* `if title.is_none()` and Title::from(&dir.path) is Some
TitleAccepted(t, ttl, c) == ttl = None /\ t[c].is_title

Init ==
    /\ tree \in GenericTrees \cup ExampleTrees
    /\ stack = <<[node |-> None, todo |-> <<Root>>]>>
    /\ body = <<>>
    /\ title = None
    /\ pc = "combine"
    /\ markdown = <<>>
    /\ trace = <<>>
    /\ input = <<>>
    /\ output = <<>>
    /\ call = "none"
    /\ passes = 0

\* combine on a file that Title::from recognises while no title is set.
CombineTitle ==
    /\ Calling
    /\ ~tree[Callee].is_dir
    /\ TitleAccepted(tree, title, Callee)
    /\ title' = Callee
    /\ stack' = Advance(stack)
    /\ trace' = Append(trace, Event("title", Callee, <<>>))
    /\ UNCHANGED <<tree, body, pc, markdown, input, output, call, passes>>

\* combine on a file: fs::read_to_string is Ok(content).
CombineRead ==
    /\ Calling
    /\ ~tree[Callee].is_dir
    /\ ~TitleAccepted(tree, title, Callee)
    /\ tree[Callee].readable
    /\ body' = body \o tree[Callee].content
    /\ stack' = Advance(stack)
    /\ trace' = Append(trace, Event("file", Callee, tree[Callee].content))
    /\ UNCHANGED <<tree, title, pc, markdown, input, output, call, passes>>

\* combine on a file: fs::read_to_string is Err, which is only logged.
CombineReadErr ==
    /\ Calling
    /\ ~tree[Callee].is_dir
    /\ ~TitleAccepted(tree, title, Callee)
    /\ ~tree[Callee].readable
    /\ stack' = Advance(stack)
    /\ trace' = Append(trace, Event("unread", Callee, <<>>))
    /\ UNCHANGED <<tree, body, title, pc, markdown, input, output, call, passes>>

\* combine on a directory, up to the loop over its children.
CombineDir ==
    /\ Calling
    /\ tree[Callee].is_dir
    /\ LET first == header_source(tree, Callee)
       IN  first # None => tree[first].readable
    /\ body' = body \o read_header(tree, Callee)
    /\ stack' = Append(Advance(stack),
                       [node |-> Callee, todo |-> children_to_walk(tree, Callee)])
    /\ trace' = Append(trace, Event("header", Callee, read_header(tree, Callee)))
    /\ UNCHANGED <<tree, title, pc, markdown, input, output, call, passes>>

\* combine on a directory whose header source cannot be read:
\* fs::read_to_string(&doc.path).unwrap() panics in rebuild_header.
CombineDirPanic ==
    /\ Calling
    /\ tree[Callee].is_dir
    /\ LET first == header_source(tree, Callee)
       IN  first # None /\ ~tree[first].readable
    /\ pc' = "panicked"
    /\ UNCHANGED <<tree, stack, body, title, markdown, trace, input, output, call, passes>>

\* combine on a directory, after the loop over its children.
CombineDirClose ==
    /\ pc = "combine"
    /\ Top.todo = <<>>
    /\ Top.node # None
    /\ body' = close_dir(body)
    /\ stack' = SubSeq(stack, 1, Len(stack) - 1)
    /\ trace' = Append(trace, Event("close", Top.node, SubSeq(close_dir(body), Len(body) + 1, Len(close_dir(body)))))
    /\ UNCHANGED <<tree, title, pc, markdown, input, output, call, passes>>

\* eval after combine has returned.
EvalReturn ==
    /\ pc = "combine"
    /\ Top.todo = <<>>
    /\ Top.node = None
    /\ markdown' = add_pagebreakes(body)
    /\ pc' = "done"
    /\ UNCHANGED <<tree, stack, body, title, trace, input, output, call, passes>>

Next ==
    \/ CombineTitle
    \/ CombineRead
    \/ CombineReadErr
    \/ CombineDir
    \/ CombineDirPanic
    \/ CombineDirClose
    \/ EvalReturn

Spec == Init /\ [][Next]_vars

-----------------------------------------------------------------------------
(* Direct calls of the text functions on arbitrary texts *)

Pieces == {<<NL>>, <<" ">>, <<"a">>, <<"#">>, <<"#", " ">>, PAGEBREAK}

\* Largest number of pieces of an argument text.
MaxPieces == 4

\* Number of successive add_pagebreakes passes.
MaxPasses == 2

RECURSIVE TextsOf(_)
TextsOf(n) ==
    IF n = 0 THEN {<<>>}
    ELSE LET T == TextsOf(n - 1) IN T \cup {t \o p : t \in T, p \in Pieces}

Texts == TextsOf(MaxPieces)

TextInit ==
    /\ input \in Texts
    /\ output = <<>>
    /\ call = "none"
    /\ passes = 0
    /\ tree = <<>>
    /\ stack = <<>>
    /\ body = <<>>
    /\ title = None
    /\ pc = "idle"
    /\ markdown = <<>>
    /\ trace = <<>>

CallAddPagebreakes ==
    /\ call \in {"none", "add_pagebreakes"}
    /\ passes < MaxPasses
    /\ output' = add_pagebreakes(IF passes = 0 THEN input ELSE output)
    /\ passes' = passes + 1
    /\ call' = "add_pagebreakes"
    /\ UNCHANGED <<tree, stack, body, title, pc, markdown, trace, input>>

CallEndsWithPagebreak ==
    /\ call = "none"
    /\ output' = ends_with_pagebreak(input)
    /\ call' = "ends_with_pagebreak"
    /\ UNCHANGED <<tree, stack, body, title, pc, markdown, trace, input, passes>>

CallRebuildHeader ==
    /\ call = "none"
    /\ \E h \in Headers : output' = [header |-> h, text |-> rebuild_header(h, input)]
    /\ call' = "rebuild_header"
    /\ UNCHANGED <<tree, stack, body, title, pc, markdown, trace, input, passes>>

TextNext ==
    \/ CallAddPagebreakes
    \/ CallEndsWithPagebreak
    \/ CallRebuildHeader

TextSpec == TextInit /\ [][TextNext]_vars

-----------------------------------------------------------------------------
(* Helpers of the properties *)

Files == {n \in Nodes : ~tree[n].is_dir}

Dirs == {n \in Nodes : tree[n].is_dir}

\* The calls of combine on files so far, in order.
FileVisits == SelectSeq(trace, LAMBDA e : e.kind \in {"title", "file", "unread"})

RECURSIVE Flatten(_, _)
Flatten(texts, i) ==
    IF i > Len(texts) THEN <<>> ELSE texts[i] \o Flatten(texts, i + 1)

\* The text the first k steps of combine have built.
BodyAfter(k) == Flatten([i \in 1..k |-> trace[i].text], 1)

\* Every node of the subtree of n in depth-first pre-order: a directory opens
\* with its header, lists each child's subtree in child order and then closes.
RECURSIVE Preorder(_, _)
RECURSIVE PreorderOfChildren(_, _, _)
Preorder(t, n) ==
    IF t[n].is_dir
    THEN <<<<"header", n>>>> \o PreorderOfChildren(t, n, 1) \o <<<<"close", n>>>>
    ELSE <<<<"file", n>>>>
PreorderOfChildren(t, d, i) ==
    IF i > Len(t[d].children) THEN <<>>
    ELSE Preorder(t, t[d].children[i]) \o PreorderOfChildren(t, d, i + 1)

\* The steps of combine so far as <<kind, node>>.
Steps == [i \in 1..Len(trace) |-> <<trace[i].kind, trace[i].node>>]

StepSet == {Steps[i] : i \in 1..Len(Steps)}

\* A file child with the header() of its directory: a candidate header source.
HeaderCandidates ==
    {c \in Files : \E d \in Dirs :
        (\E i \in 1..Len(tree[d].children) : tree[d].children[i] = c)
        /\ tree[c].header = tree[d].header}

NoTitlePages == \A f \in Files : ~tree[f].is_title

AllReadable == \A f \in Files : tree[f].readable

\* The marker occurs in s at position p.
MarkerAt(s, p) ==
    p + Len(PAGEBREAK) - 1 <= Len(s) /\ SubSeq(s, p, p + Len(PAGEBREAK) - 1) = PAGEBREAK

-----------------------------------------------------------------------------
(* C1 *)

\* The title is the first file combine was called on that Title::from
\* recognises, and that call appended nothing.
TitleIsFirstTitlePage ==
    LET accepting == {i \in 1..Len(FileVisits) : tree[FileVisits[i].node].is_title}
    IN  IF accepting = {} THEN title = None
        ELSE LET first == CHOOSE i \in accepting : \A j \in accepting : i <= j
             IN  /\ title = FileVisits[first].node
                 /\ FileVisits[first].kind = "title"
                 /\ FileVisits[first].text = <<>>
                 /\ \A j \in accepting \ {first} : FileVisits[j].kind # "title"

\* C1: during one combine pass the title is set at most once, by the first
\* file visited for which title extraction succeeds; no later file overwrites
\* it, and the step that sets it leaves body unchanged.
C1_TitleSetOnce ==
    /\ [](pc \in {"combine", "done", "panicked"} => TitleIsFirstTitlePage)
    /\ [][(title # None => title' = title) /\ (title' # title => body' = body)]_vars

\* A second title page was visited after the title had been set, and was read
\* as an ordinary file.
C1_Witness ==
    /\ title # None
    /\ \E i \in 1..Len(trace) :
          /\ trace[i].kind = "file"
          /\ tree[trace[i].node].is_title
          /\ trace[i].node # title

-----------------------------------------------------------------------------
(* C2 *)

\* C2: for a tree with no title pages and all files readable, the steps of
\* combine are the depth-first pre-order of the tree (header of a directory,
\* then its children's subtrees in child order, then its close), less only
\* header candidates; body is the concatenation of what the steps contributed
\* in that order, and at each close body ends with a break marker.  For
\* root{dirA{hdrA, file1, file2}, dirB{hdrB, file3}} the order is dirA-header,
\* file1, file2, pagebreak, dirB-header, file3, pagebreak and the close of root
\* adds nothing.
C2_PreorderContributions ==
    (pc = "done" /\ NoTitlePages /\ AllReadable) =>
        /\ Steps = SelectSeq(Preorder(tree, Root), LAMBDA e : e \in StepSet)
        /\ \A e \in {Preorder(tree, Root)[i] : i \in 1..Len(Preorder(tree, Root))} \ StepSet :
              e[1] = "file" /\ e[2] \in HeaderCandidates
        /\ body = BodyAfter(Len(trace))
        /\ \A i \in 1..Len(trace) :
              /\ trace[i].kind = "header" => trace[i].text = read_header(tree, trace[i].node)
              /\ trace[i].kind = "file" => trace[i].text = tree[trace[i].node].content
              /\ trace[i].kind = "close" => ends_with_pagebreak(BodyAfter(i))
        /\ tree \in ExampleTrees =>
              /\ Steps = << <<"header", 1>>, <<"header", 2>>, <<"file", 4>>, <<"file", 5>>,
                            <<"close", 2>>, <<"header", 6>>, <<"file", 8>>, <<"close", 6>>,
                            <<"close", 1>> >>
              /\ trace[Len(trace)].text = <<>>

\* eval has finished on the example tree.
C2_Witness ==
    /\ pc = "done"
    /\ tree \in ExampleTrees
    /\ NoTitlePages /\ AllReadable
    /\ Len(trace) = 9

-----------------------------------------------------------------------------
(* C3 *)

\* C3: a read failure, on an ordinary file or on a header source, never aborts
\* combine: the pass does not panic and, when it ends, every directory has
\* been walked.
C3_ReadFailureNeverAborts ==
    /\ pc # "panicked"
    /\ pc = "done" => \A d \in Dirs : <<"close", d>> \in StepSet

-----------------------------------------------------------------------------
(* C4 *)

\* C4: add_pagebreakes is idempotent: a second pass over its own output
\* changes nothing.
C4_AddPagebreakesIdempotent ==
    (call = "add_pagebreakes" /\ passes >= 2) => output = add_pagebreakes(input)

-----------------------------------------------------------------------------
(* C5 *)

\* body ends in a single newline after non-blank text and has no break marker
\* on its last non-blank line.
EndsInSingleNewline(b) ==
    /\ Len(b) >= 2
    /\ b[Len(b)] = NL
    /\ b[Len(b) - 1] \notin Whitespace
    /\ ~ends_with_pagebreak(b)

\* C5: when the children of a directory are done and body ends in a single
\* newline after non-blank text with no marker, the closing steps append one
\* newline and then the marker followed by "\n\n".
C5_CloseAppendsOneNewline ==
    [][(pc = "combine" /\ Top.todo = <<>> /\ Top.node # None /\ EndsInSingleNewline(body))
          => body' = body \o <<NL>> \o PAGEBREAK \o NLNL]_vars

-----------------------------------------------------------------------------
(* C6 *)

\* The position of the end of the line of s that holds position p.
LineEnd(s, p) ==
    IF \E q \in p..Len(s) : s[q] = NL
    THEN CHOOSE q \in p..Len(s) : s[q] = NL /\ \A r \in p..(q - 1) : s[r] # NL
    ELSE Len(s) + 1

\* Some line of s holds the marker and only whitespace follows that line.
LastNonBlankLineHasMarker(s) ==
    \E p \in 1..Len(s) :
        /\ MarkerAt(s, p)
        /\ \A q \in LineEnd(s, p)..Len(s) : s[q] \in Whitespace

\* C6: ends_with_pagebreak is true exactly when the text has a non-blank line
\* and the last one contains the marker; it is false on blank text.
C6_EndsWithPagebreakIff ==
    call = "ends_with_pagebreak" =>
        /\ output = LastNonBlankLineHasMarker(input)
        /\ (\A i \in 1..Len(input) : input[i] \in Whitespace) => output = FALSE

\* The marker line is followed by blank lines and the answer is true.
C6_Witness ==
    /\ call = "ends_with_pagebreak"
    /\ output = TRUE
    /\ ends_with(input, <<NL, " ", NL>>)

-----------------------------------------------------------------------------
(* C7 *)

\* C7: a file child that has the header of its directory but is not the first
\* such child stays in the child iteration and has its content appended.
C7_LaterCandidatesAreEmitted ==
    pc = "done" =>
        \A d \in Dirs : \A i \in 1..Len(tree[d].children) :
            LET c == tree[d].children[i]
            IN  (/\ c \in HeaderCandidates
                 /\ c # header_source(tree, d)
                 /\ tree[c].readable
                 /\ ~tree[c].is_title)
                => \E k \in 1..Len(trace) :
                      /\ trace[k].node = c
                      /\ trace[k].kind = "file"
                      /\ trace[k].text = tree[c].content

-----------------------------------------------------------------------------
(* C8 *)

\* C8: when the first line is a heading, the output is the rewritten heading,
\* a blank line, and then every remaining line of the file; the placeholder
\* stands in only when there is no line beyond the heading.
C8_RemainingLinesKept ==
    (call = "rebuild_header" /\ HeadingCaptures(split(input)[1]).matched) =>
        LET lines == split(input)
            caps  == HeadingCaptures(lines[1])
            head  == caps.hashes \o <<" ">> \o output.header \o <<".", " ">> \o caps.text \o NLNL
        IN  /\ starts_with(output.text, head)
            /\ (Len(lines) >= 2 /\ \E k \in 2..Len(lines) : lines[k] # <<>>)
                  => output.text = head \o JoinFrom(lines, 2)

-----------------------------------------------------------------------------
(* C9 *)

\* C9: when the first line is not a heading, the output is the file's text.
C9_NonHeadingUnmodified ==
    (call = "rebuild_header" /\ ~HeadingCaptures(split(input)[1]).matched) =>
        output.text = input

-----------------------------------------------------------------------------
(* C10 *)

\* The lines of s that contain the marker, as line numbers.
MarkerLines(s) == {k \in 1..Len(split(s)) : contains(split(s)[k], PAGEBREAK)}

\* No two marker lines have only blank lines between them.
NoAdjacentMarkers(s) ==
    \A j \in MarkerLines(s) : \A k \in MarkerLines(s) :
        j < k => \E m \in (j + 1)..(k - 1) : re_non_whitespace(split(s)[m])

\* C10: in the markdown eval returns, two break-marker lines never occur with
\* only blank lines between them (no file holding a marker of its own).
C10_NoDoubleMarker ==
    (pc = "done" /\ \A f \in Files : ~contains(tree[f].content, PAGEBREAK)) =>
        NoAdjacentMarkers(markdown)

====
